---- MODULE Spec2Model ----
(***************************************************************************)
(* AmongUs-Shuffler: the pairing engine (shuffler.rs) and the game         *)
(* registry with the handlers that drive it (main.rs, game.rs).            *)
(*                                                                         *)
(* Two state machines share this module.                                   *)
(*   SpecShuffle  one call of shuffle_people(people, avoid_pairs), its     *)
(*                inputs drawn in InitShuffle, its retry recursion a step. *)
(*   Spec         the bot: message handlers run as concurrent tasks, every *)
(*                .await of a handler an interleaving point.               *)
(*   SpecHandlers one handler at a time, each run from its message to its  *)
(*                return, with every message it sends kept in `outbox`.    *)
(*   SpecParse    one call of parse_shuffle_message(message) (parser.rs).  *)
(***************************************************************************)
EXTENDS Integers, Sequences, FiniteSets, TLC

\* ------------------------------------------------------------------ bounds

\* User identifiers are 1..NumIds.
NumIds == 3
\* Longest participant list handed to shuffle_people in SpecShuffle.
MaxPeople == 3
\* Longest avoid-list handed to shuffle_people in SpecShuffle.
MaxAvoid == 4
\* The recursion depth of shuffle_people is counted up to MaxDepth and then
\* saturates (the recursion itself goes on).
MaxDepth == 2

\* Channel identifiers are 1..NumChannels.
NumChannels == 2
\* Handlers that can be in flight at once.
NumTasks == 2
\* Messages the bot receives in one run.
MaxEvents == 4
\* Longest list of non-bot mentions in a guild message.
MaxMentions == 3
\* Longest message handed to parse_shuffle_message, in pieces.
MaxPieces == 4
\* Messages the bot receives in one run of SpecFair.
MaxFairEvents == 2

\* shuffler.rs:18, `people.len() < 3`.
MinPeople == 3

Ids == 1..NumIds
Channels == 1..NumChannels
Tasks == 1..NumTasks

VARIABLES
    people,       \* shuffle_people's argument `people`
    avoid_pairs,  \* shuffle_people's argument `avoid_pairs`
    sh_pc,        \* "call" | "shuffle" | "done": where the call stands
    sh_players,   \* the local `players` once sorted and deduplicated
    sh_depth,     \* recursion depth (number of retries so far), saturating
    sh_result,    \* the returned Result<Pairs, ShuffleError>
    games,        \* the HashMap<UserId, Game> behind Games
    store_w,      \* the task holding ctx.data's write lock, or NoTask
    store_r,      \* the tasks holding ctx.data's read lock
    games_w,      \* the task holding the games RwLock's write lock, or NoTask
    games_r,      \* the tasks holding the games RwLock's read lock
    task,         \* each handler task's position and locals
    events,       \* messages received so far
    last_round,   \* history: the round registered by the latest shuffle
                  \* request, when that request ran from start to end with
                  \* no other shuffle request in flight, and none came since
    overlap,      \* history: the shuffle requests now in flight have been
                  \* in flight together
    h,            \* SpecHandlers: the running (or last) handler's locals
    outbox,       \* SpecHandlers: what that handler has sent, in order
    message,      \* parse_shuffle_message's argument, a vector of chars
    parsed        \* the returned Result<Vec<UserId>, ShuffleParseError>

shvars == <<people, avoid_pairs, sh_pc, sh_players, sh_depth, sh_result>>

locks == <<store_w, store_r, games_w, games_r>>

botvars ==
    <<games, store_w, store_r, games_w, games_r, task, events, last_round,
      overlap>>

handlervars == <<h, outbox>>

parservars == <<message, parsed>>

vars == <<people, avoid_pairs, sh_pc, sh_players, sh_depth, sh_result,
          games, store_w, store_r, games_w, games_r, task, events, last_round,
          overlap, h, outbox, message, parsed>>

\* ------------------------------------------------------- vectors and pairs

Range(s) == {s[i] : i \in DOMAIN s}

\* Vec::contains
Contains(s, x) == \E i \in DOMAIN s : s[i] = x

SeqsUpTo(S, n) == UNION {[1..k -> S] : k \in 0..n}

RECURSIVE Insert(_, _)
Insert(x, s) ==
    IF s = <<>> THEN <<x>>
    ELSE IF x <= Head(s) THEN <<x>> \o s
    ELSE <<Head(s)>> \o Insert(x, Tail(s))

\* Vec::sort: the elements in ascending order, repeats kept.
RECURSIVE Sort(_)
Sort(s) == IF s = <<>> THEN <<>> ELSE Insert(Head(s), Sort(Tail(s)))

\* Dedup with the removal forgotten: the vector is left as it is.
DedupKeepsAll(s) == s

\* Vec::dedup: consecutive repeated elements removed.
RECURSIVE Dedup(_)
Dedup(s) ==
    IF Len(s) <= 1 THEN s
    ELSE IF s[1] = s[2] THEN Dedup(Tail(s))
    ELSE <<s[1]>> \o Dedup(Tail(s))

\* The arrangements of the positions 1..n, as sequences.
RECURSIVE Arrangements(_)
Arrangements(S) ==
    IF S = {} THEN {<<>>}
    ELSE UNION {{<<x>> \o p : p \in Arrangements(S \ {x})} : x \in S}

\* The arrangements of 1..n for the lengths up to MaxPeople, worked out once.
ArrangementsUpTo == [n \in 0..MaxPeople |-> Arrangements(1..n)]

\* Every order SliceRandom::shuffle can leave the vector in.
Shuffles(s) ==
    LET ps == IF Len(s) <= MaxPeople THEN ArrangementsUpTo[Len(s)]
              ELSE Arrangements(1..Len(s))
    IN  {[i \in 1..Len(s) |-> s[p[i]]] : p \in ps}

\* ------------------------------------------------------------ shuffle_people

Ok(pairs) == [err |-> "None", pairs |-> pairs]
Err(e) == [err |-> e, pairs |-> <<>>]
NoResult == [err |-> "Pending", pairs |-> <<>>]

\* The checks with the exclusion count tested before the participant count.
PreCheckExclusionsFirst(ppl, avoid) ==
    IF Len(avoid) > Len(ppl) THEN "TooManyExclusions"
    ELSE IF Len(ppl) < MinPeople THEN "TooFewPeople"
    ELSE IF Len(Dedup(Sort(ppl))) # Len(ppl) THEN "DuplicatesDetected"
    ELSE "None"

\* The checks with the duplicate test moved before the exclusion count.
PreCheckDuplicatesFirst(ppl, avoid) ==
    IF Len(ppl) < MinPeople THEN "TooFewPeople"
    ELSE IF Len(Dedup(Sort(ppl))) # Len(ppl) THEN "DuplicatesDetected"
    ELSE IF Len(avoid) > Len(ppl) THEN "TooManyExclusions"
    ELSE "None"

\* The checks without the test for duplicates.
PreCheckCountsOnly(ppl, avoid) ==
    IF Len(ppl) < MinPeople THEN "TooFewPeople"
    ELSE IF Len(avoid) > Len(ppl) THEN "TooManyExclusions"
    ELSE "None"

\* The checks without the test of the exclusion count.
PreCheckWithoutExclusions(ppl, avoid) ==
    IF Len(ppl) < MinPeople THEN "TooFewPeople"
    ELSE IF Len(Dedup(Sort(ppl))) # Len(ppl) THEN "DuplicatesDetected"
    ELSE "None"

\* Lines 18-34: the three checks, in the order the code makes them.
PreCheck(ppl, avoid) ==
    IF Len(ppl) < MinPeople THEN "TooFewPeople"
    ELSE IF Len(avoid) > Len(ppl) THEN "TooManyExclusions"
    ELSE IF Len(Dedup(Sort(ppl))) # Len(ppl) THEN "DuplicatesDetected"
    ELSE "None"

\* The tuples with the last player pushed instead of the first.
TuplesPushLast(order) ==
    LET pushed == Append(order, order[Len(order)])
    IN  [i \in 1..Len(order) |-> <<pushed[i], pushed[i + 1]>>]

\* Lines 38-41: players.push(players[0]), then the tuples
\* (players[i], players[i+1]) for i in 0..len-1, here 1-based.
Tuples(order) ==
    LET pushed == Append(order, order[1])
    IN  [i \in 1..Len(order) |-> <<pushed[i], pushed[i + 1]>>]

\* The avoid test with the loop stopping before the wrap-around tuple.
HitsAvoidedNoWrap(order, avoid) ==
    \E i \in 1..(Len(order) - 1) : Contains(avoid, Tuples(order)[i])

\* The avoid test taking a tuple for avoided in either direction.
HitsAvoidedEitherWay(order, avoid) ==
    \E i \in 1..Len(order) :
        LET tp == Tuples(order)[i]
        IN  Contains(avoid, tp) \/ Contains(avoid, <<tp[2], tp[1]>>)

\* Line 42 for some i of the loop: a tuple is in the avoid-list.
HitsAvoided(order, avoid) ==
    \E i \in 1..Len(order) : Contains(avoid, Tuples(order)[i])

\* shuffle_people entered (first call or recursive call): lines 17-34.
ShuffleEnter ==
    /\ sh_pc = "call"
    /\ LET e == PreCheck(people, avoid_pairs)
       IN  IF e # "None"
           THEN /\ sh_pc' = "done"
                /\ sh_result' = Err(e)
                /\ sh_players' = <<>>
           ELSE /\ sh_pc' = "shuffle"
                /\ sh_result' = sh_result
                /\ sh_players' = Dedup(Sort(people))
    /\ UNCHANGED <<people, avoid_pairs, sh_depth>>
    /\ UNCHANGED <<botvars, handlervars, parservars>>

\* Lines 36-45: the random order holds an avoided tuple; the call recurses.
ShuffleRetry ==
    /\ sh_pc = "shuffle"
    /\ \E order \in Shuffles(sh_players) : HitsAvoided(order, avoid_pairs)
    /\ sh_pc' = "call"
    /\ sh_depth' = IF sh_depth < MaxDepth THEN sh_depth + 1 ELSE sh_depth
    /\ sh_players' = <<>>
    /\ UNCHANGED <<people, avoid_pairs, sh_result>>
    /\ UNCHANGED <<botvars, handlervars, parservars>>

\* Lines 36-49: the random order holds no avoided tuple; Ok(result).
ShuffleReturn ==
    /\ sh_pc = "shuffle"
    /\ \E order \in Shuffles(sh_players) :
        /\ ~HitsAvoided(order, avoid_pairs)
        /\ sh_result' = Ok(Tuples(order))
    /\ sh_pc' = "done"
    /\ sh_players' = <<>>
    /\ UNCHANGED <<people, avoid_pairs, sh_depth>>
    /\ UNCHANGED <<botvars, handlervars, parservars>>

\* The avoid-lists SpecShuffle draws. shuffle_people reads avoid_pairs only
\* through len() and contains(), so one order of each list stands for all:
\* the lists of distinct tuples (a, b), a # b, in ascending order.
AllTuples == {tp \in Ids \X Ids : tp[1] # tp[2]}

TupleLess(a, b) == a[1] < b[1] \/ (a[1] = b[1] /\ a[2] < b[2])

RECURSIVE Ascending(_)
Ascending(S) ==
    IF S = {} THEN <<>>
    ELSE LET m == CHOOSE x \in S : \A y \in S \ {x} : TupleLess(x, y)
         IN  <<m>> \o Ascending(S \ {m})

AvoidLists ==
    {Ascending(S) : S \in {T \in SUBSET AllTuples : Cardinality(T) <= MaxAvoid}}

InitShuffle ==
    /\ people \in SeqsUpTo(Ids, MaxPeople)
    /\ avoid_pairs \in AvoidLists
    /\ sh_pc = "call"
    /\ sh_players = <<>>
    /\ sh_depth = 0
    /\ sh_result = NoResult
    /\ games = <<>>
    /\ store_w = 0
    /\ store_r = {}
    /\ games_w = 0
    /\ games_r = {}
    /\ task = <<>>
    /\ events = 0
    /\ last_round = <<>>
    /\ overlap = FALSE
    /\ h = <<>>
    /\ outbox = <<>>
    /\ message = <<>>
    /\ parsed = <<>>

NextShuffle == ShuffleEnter \/ ShuffleRetry \/ ShuffleReturn

SpecShuffle == InitShuffle /\ [][NextShuffle]_vars

\* Fair random source: an order that thread_rng can draw is drawn sooner or
\* later, so a return that stays possible at every retry happens.
SpecShuffleFair ==
    /\ InitShuffle
    /\ [][NextShuffle]_vars
    /\ WF_vars(ShuffleEnter)
    /\ SF_vars(ShuffleReturn)


\* ------------------------------------------------------------ game registry

None == <<>>
Some(x) == <<x>>
NoTask == 0

\* A game owned by the first pair's target instead of its assignee.
new_game_owned_by_target(channel, pairs) ==
    [owner |-> pairs[1][2], channel |-> channel, pairs |-> pairs]

\* game.rs:34-40 as add_game calls it (main.rs:33): the owner is pairs[0].0.
new_game(channel, pairs) ==
    [owner |-> pairs[1][1], channel |-> channel, pairs |-> pairs]

\* HashMap::insert
MapInsert(m, k, v) ==
    [x \in DOMAIN m \cup {k} |-> IF x = k THEN v ELSE m[x]]

\* HashMap::remove, the map left behind
MapRemove(m, k) == [x \in DOMAIN m \ {k} |-> m[x]]

\* A lookup that returns an entry of the map whatever the key.
MapGetAny(m, k) ==
    IF DOMAIN m = {} THEN <<>> ELSE <<m[CHOOSE x \in DOMAIN m : TRUE]>>

\* HashMap::get(..).cloned(), and the value HashMap::remove returns
MapGet(m, k) == IF k \in DOMAIN m THEN Some(m[k]) ELSE None

EmptyMap == [x \in {} |-> 0]

\* An insertion that leaves the map as it is.
InsertGameDropped(m, g) == m

\* main.rs:33-34: games.insert(game.get_owner(), game)
InsertGame(m, g) == MapInsert(m, g.owner, g)

\* A removal that evicts every game of the given game's channel.
RemoveByChannel(m, g) ==
    [x \in {k \in DOMAIN m : m[k].channel # g.channel} |-> m[x]]

\* main.rs:84: games.remove(&game.get_owner()), the map left behind
RemoveGame(m, g) == MapRemove(m, g.owner)

\* main.rs:64-70: what the scan can return. HashMap iterates in an order
\* the program does not fix, so any game of the channel may come first.
ScanResults(m, channel) ==
    LET hits == {k \in DOMAIN m : m[k].channel = channel}
    IN  IF hits = {} THEN {None} ELSE {Some(m[k]) : k \in hits}

\* The previous game's pairs, each of them in both directions.
AvoidOfBothWays(game) ==
    IF game = <<>> THEN <<>>
    ELSE game[1].pairs
         \o [i \in DOMAIN game[1].pairs |->
                <<game[1].pairs[i][2], game[1].pairs[i][1]>>]

\* main.rs:118-121: the previous game's pairs, or none.
AvoidOf(game) == IF game = None THEN <<>> ELSE game[1].pairs

\* ------------------------------------------------------------------- tasks

IdleTask ==
    [pc |-> "idle", channel |-> 0, mentioned |-> <<>>, game |-> None,
     pairs |-> <<>>, ret |-> None, author |-> 0]

\* The pcs of guild_message and of direct_message.
GuildPcs ==
    {"lookup_store", "lookup_games", "lookup_scan", "shuffle",
     "remove_store", "remove_games", "remove_body",
     "add_store", "add_games", "add_body", "notify"}

DmPcs == {"get_store", "get_games", "get_body", "relay"}

InGuild(t) == task[t].pc \in GuildPcs

\* The mention lists a guild message brings: shuffle_people sorts its copy
\* of the list, so the ascending order of each list stands for all.
MentionLists == {Sort(m) : m \in SeqsUpTo(Ids, MaxMentions)}

\* RwLock::read / RwLock::write can be granted.
CanRead(w) == w = NoTask
\* A write lock granted while readers hold the lock.
CanWriteOverReaders(w, r) == w = NoTask

CanWrite(w, r) == w = NoTask /\ r = {}

\* Handlers are spawned as anonymous tasks: a new one takes the first free
\* slot.
FreeSlot(t) ==
    /\ task[t].pc = "idle"
    /\ \A u \in Tasks : u < t => task[u].pc # "idle"

Goto(t, pc) == task' = [task EXCEPT ![t].pc = pc]

\* The handler of task t returns.
Return(t) == task' = [task EXCEPT ![t] = IdleTask]

\* -------------------------------------------------------------- guild_message

\* main.rs:93-97: the parser rejects the message; nothing else happens.
GmRejected(t) ==
    /\ FreeSlot(t)
    /\ events < MaxEvents
    /\ events' = events + 1
    /\ UNCHANGED <<games, locks, task, last_round, overlap>>
    /\ UNCHANGED <<shvars, handlervars, parservars>>

\* main.rs:99-111: fewer than 3 non-bot mentions; reported, then return.
GmTooFewMentions(t) ==
    /\ FreeSlot(t)
    /\ events < MaxEvents
    /\ \E mentioned \in MentionLists : Len(mentioned) < 3
    /\ events' = events + 1
    /\ last_round' = None
    /\ overlap' = (overlap \/ \E u \in Tasks : InGuild(u))
    /\ UNCHANGED <<games, locks, task>>
    /\ UNCHANGED <<shvars, handlervars, parservars>>

\* main.rs:90-114: a shuffle command with 3 or more mentions arrives on
\* `channel`; the handler goes on to get_game_by_channel_id.
GmReceive(t) ==
    /\ FreeSlot(t)
    /\ events < MaxEvents
    /\ \E channel \in Channels, mentioned \in MentionLists :
        /\ Len(mentioned) >= 3
        /\ events' = events + 1
        /\ task' = [task EXCEPT ![t].pc = "lookup_store",
                                ![t].channel = channel,
                                ![t].mentioned = mentioned]
    /\ IF \E u \in Tasks : InGuild(u)
       THEN last_round' = None /\ overlap' = TRUE
       ELSE last_round' = last_round /\ overlap' = FALSE
    /\ UNCHANGED <<games, locks>>
    /\ UNCHANGED <<shvars, handlervars, parservars>>

\* main.rs:59 (get_game_by_channel_id): ctx.data.read().await
LookupLockStore(t) ==
    /\ task[t].pc = "lookup_store"
    /\ CanRead(store_w)
    /\ store_r' = store_r \cup {t}
    /\ Goto(t, "lookup_games")
    /\ UNCHANGED <<games, store_w, games_w, games_r, events, last_round, overlap>>
    /\ UNCHANGED <<shvars, handlervars, parservars>>

\* main.rs:61: store.get::<Games>().unwrap().read().await
LookupLockGames(t) ==
    /\ task[t].pc = "lookup_games"
    /\ CanRead(games_w)
    /\ games_r' = games_r \cup {t}
    /\ Goto(t, "lookup_scan")
    /\ UNCHANGED <<games, store_w, store_r, games_w, events, last_round, overlap>>
    /\ UNCHANGED <<shvars, handlervars, parservars>>

\* The scan returning with both read guards still held.
LookupByChannelKeepsGuards(t) ==
    /\ task[t].pc = "lookup_scan"
    /\ \E found \in ScanResults(games, task[t].channel) :
        task' = [task EXCEPT ![t].game = found, ![t].pc = "shuffle"]
    /\ UNCHANGED <<games, locks, events, last_round, overlap>>
    /\ UNCHANGED <<shvars, handlervars, parservars>>

\* main.rs:64-71 and 114: the scan, the clone it returns, both guards dropped.
LookupByChannel(t) ==
    /\ task[t].pc = "lookup_scan"
    /\ \E found \in ScanResults(games, task[t].channel) :
        task' = [task EXCEPT ![t].game = found, ![t].pc = "shuffle"]
    /\ store_r' = store_r \ {t}
    /\ games_r' = games_r \ {t}
    /\ UNCHANGED <<games, store_w, games_w, events, last_round, overlap>>
    /\ UNCHANGED <<shvars, handlervars, parservars>>

\* main.rs:124-130: shuffle_people returns an error; reported, then return.
GmShuffleFails(t) ==
    /\ task[t].pc = "shuffle"
    /\ PreCheck(task[t].mentioned, AvoidOf(task[t].game)) # "None"
    /\ Return(t)
    /\ last_round' = None
    /\ UNCHANGED <<games, locks, events, overlap>>
    /\ UNCHANGED <<shvars, handlervars, parservars>>

\* shuffler.rs:36-45 inside main.rs:124: an order with an avoided tuple was
\* drawn and shuffle_people has called itself again.
GmShuffleRetries(t) ==
    /\ task[t].pc = "shuffle"
    /\ PreCheck(task[t].mentioned, AvoidOf(task[t].game)) = "None"
    /\ \E order \in Shuffles(Dedup(Sort(task[t].mentioned))) :
        HitsAvoided(order, AvoidOf(task[t].game))
    /\ UNCHANGED botvars
    /\ UNCHANGED <<shvars, handlervars, parservars>>

\* main.rs:124-139: shuffle_people returns Ok(pairs); next comes remove_game
\* when a game was found, add_game otherwise.
GmShuffled(t) ==
    /\ task[t].pc = "shuffle"
    /\ PreCheck(task[t].mentioned, AvoidOf(task[t].game)) = "None"
    /\ \E order \in Shuffles(Dedup(Sort(task[t].mentioned))) :
        /\ ~HitsAvoided(order, AvoidOf(task[t].game))
        /\ task' = [task EXCEPT
             ![t].pairs = Tuples(order),
             ![t].mentioned = <<>>,
             ![t].pc = IF task[t].game # None THEN "remove_store"
                       ELSE "add_store"]
    /\ UNCHANGED <<games, locks, events, last_round, overlap>>
    /\ UNCHANGED <<shvars, handlervars, parservars>>

\* main.rs:79 (remove_game): ctx.data.write().await
RemoveLockStore(t) ==
    /\ task[t].pc = "remove_store"
    /\ CanWrite(store_w, store_r)
    /\ store_w' = t
    /\ Goto(t, "remove_games")
    /\ UNCHANGED <<games, store_r, games_w, games_r, events, last_round, overlap>>
    /\ UNCHANGED <<shvars, handlervars, parservars>>

\* main.rs:81: store.get_mut::<Games>().unwrap().write().await
RemoveLockGames(t) ==
    /\ task[t].pc = "remove_games"
    /\ CanWrite(games_w, games_r)
    /\ games_w' = t
    /\ Goto(t, "remove_body")
    /\ UNCHANGED <<games, store_w, store_r, games_r, events, last_round, overlap>>
    /\ UNCHANGED <<shvars, handlervars, parservars>>

\* main.rs:84-87 and 137: the entry under the found game's owner is removed
\* and returned, both guards dropped. `ret` keeps the returned Option until
\* the handler's next step (the handler itself drops it).
RemoveBody(t) ==
    /\ task[t].pc = "remove_body"
    /\ games' = RemoveGame(games, task[t].game[1])
    /\ task' = [task EXCEPT
         ![t].ret = Some(MapGet(games, task[t].game[1].owner)),
         ![t].game = None,
         ![t].pc = "add_store"]
    /\ store_w' = NoTask
    /\ games_w' = NoTask
    /\ UNCHANGED <<store_r, games_r, events, last_round, overlap>>
    /\ UNCHANGED <<shvars, handlervars, parservars>>

\* main.rs:28 (add_game): ctx.data.write().await
AddLockStore(t) ==
    /\ task[t].pc = "add_store"
    /\ CanWrite(store_w, store_r)
    /\ store_w' = t
    /\ task' = [task EXCEPT ![t].ret = None, ![t].pc = "add_games"]
    /\ UNCHANGED <<games, store_r, games_w, games_r, events, last_round, overlap>>
    /\ UNCHANGED <<shvars, handlervars, parservars>>

\* main.rs:30: store.get_mut::<Games>().unwrap().write().await
AddLockGames(t) ==
    /\ task[t].pc = "add_games"
    /\ CanWrite(games_w, games_r)
    /\ games_w' = t
    /\ Goto(t, "add_body")
    /\ UNCHANGED <<games, store_w, store_r, games_r, events, last_round, overlap>>
    /\ UNCHANGED <<shvars, handlervars, parservars>>

\* add_game returning with both write guards still held.
AddBodyKeepsGuards(t) ==
    /\ task[t].pc = "add_body"
    /\ games' = InsertGame(games, new_game(task[t].channel, task[t].pairs))
    /\ Goto(t, "notify")
    /\ UNCHANGED <<locks, events, last_round, overlap>>
    /\ UNCHANGED <<shvars, handlervars, parservars>>

\* main.rs:33-36 and 143-146: the new game is inserted under its owner,
\* both guards dropped; the notification loop is next.
AddBody(t) ==
    /\ task[t].pc = "add_body"
    /\ games' = InsertGame(games, new_game(task[t].channel, task[t].pairs))
    /\ Goto(t, "notify")
    /\ store_w' = NoTask
    /\ games_w' = NoTask
    /\ UNCHANGED <<store_r, games_r, events, last_round, overlap>>
    /\ UNCHANGED <<shvars, handlervars, parservars>>

\* The handler returns after add_game: the history of the last round.
Registered(t) ==
    IF overlap THEN None
    ELSE Some([channel |-> task[t].channel, pairs |-> task[t].pairs])

\* main.rs:146-194: the notification loop, which touches nothing the tasks
\* share. It runs through the pairs in order and ends at the first
\* create_dm_channel that fails (lines 153-161) or after the last pair (a
\* send that fails, lines 168-174 and 185-191, does not end it); then the
\* handler returns.
GmNotify(t) ==
    /\ task[t].pc = "notify"
    /\ Return(t)
    /\ last_round' = Registered(t)
    /\ UNCHANGED <<games, locks, events, overlap>>
    /\ UNCHANGED <<shvars, handlervars, parservars>>

\* ------------------------------------------------------------- direct_message

\* main.rs:207-210: a private message from a bot; return at once.
DmFromBot(t) ==
    /\ FreeSlot(t)
    /\ events < MaxEvents
    /\ events' = events + 1
    /\ UNCHANGED <<games, locks, task, last_round, overlap>>
    /\ UNCHANGED <<shvars, handlervars, parservars>>

\* main.rs:211-214: a private message from user `author`; get_game is next.
DmReceive(t) ==
    /\ FreeSlot(t)
    /\ events < MaxEvents
    /\ \E author \in Ids :
        task' = [task EXCEPT ![t].pc = "get_store", ![t].author = author]
    /\ events' = events + 1
    /\ UNCHANGED <<games, locks, last_round, overlap>>
    /\ UNCHANGED <<shvars, handlervars, parservars>>

\* main.rs:45 (get_game): ctx.data.read().await
GetLockStore(t) ==
    /\ task[t].pc = "get_store"
    /\ CanRead(store_w)
    /\ store_r' = store_r \cup {t}
    /\ Goto(t, "get_games")
    /\ UNCHANGED <<games, store_w, games_w, games_r, events, last_round, overlap>>
    /\ UNCHANGED <<shvars, handlervars, parservars>>

\* main.rs:47: store.get::<Games>().unwrap().read().await
GetLockGames(t) ==
    /\ task[t].pc = "get_games"
    /\ CanRead(games_w)
    /\ games_r' = games_r \cup {t}
    /\ Goto(t, "get_body")
    /\ UNCHANGED <<games, store_w, store_r, games_w, events, last_round, overlap>>
    /\ UNCHANGED <<shvars, handlervars, parservars>>

\* main.rs:50 and 214-219: games.get(&owner).cloned(), both guards dropped;
\* no game: return, a game: relay next.
GetBody(t) ==
    /\ task[t].pc = "get_body"
    /\ LET found == MapGet(games, task[t].author)
       IN  IF found = None
           THEN Return(t)
           ELSE task' = [task EXCEPT ![t].game = found, ![t].pc = "relay"]
    /\ store_r' = store_r \ {t}
    /\ games_r' = games_r \ {t}
    /\ UNCHANGED <<games, store_w, games_w, events, last_round, overlap>>
    /\ UNCHANGED <<shvars, handlervars, parservars>>

\* main.rs:221-233: the host's message is said on the game's channel
\* (sent, or failed and reported to the private channel); return.
DmRelay(t) ==
    /\ task[t].pc = "relay"
    /\ Return(t)
    /\ UNCHANGED <<games, locks, events, last_round, overlap>>
    /\ UNCHANGED <<shvars, handlervars, parservars>>

\* ---------------------------------------------------------------- the bot

\* main.rs:272-275: the store holds an empty map; no handler runs.
Init ==
    /\ games = EmptyMap
    /\ store_w = NoTask
    /\ store_r = {}
    /\ games_w = NoTask
    /\ games_r = {}
    /\ task = [t \in Tasks |-> IdleTask]
    /\ events = 0
    /\ last_round = None
    /\ overlap = FALSE
    /\ h = <<>>
    /\ outbox = <<>>
    /\ message = <<>>
    /\ parsed = <<>>
    /\ people = <<>>
    /\ avoid_pairs = <<>>
    /\ sh_pc = "done"
    /\ sh_players = <<>>
    /\ sh_depth = 0
    /\ sh_result = NoResult

Next ==
    \E t \in Tasks :
        \/ GmRejected(t)
        \/ GmTooFewMentions(t)
        \/ GmReceive(t)
        \/ LookupLockStore(t)
        \/ LookupLockGames(t)
        \/ LookupByChannel(t)
        \/ GmShuffleFails(t)
        \/ GmShuffleRetries(t)
        \/ GmShuffled(t)
        \/ RemoveLockStore(t)
        \/ RemoveLockGames(t)
        \/ RemoveBody(t)
        \/ AddLockStore(t)
        \/ AddLockGames(t)
        \/ AddBody(t)
        \/ GmNotify(t)
        \/ DmFromBot(t)
        \/ DmReceive(t)
        \/ GetLockStore(t)
        \/ GetLockGames(t)
        \/ GetBody(t)
        \/ DmRelay(t)

Spec == Init /\ [][Next]_vars

\* The pcs inside the four registry operations, and a step of one of them.
OpPcs ==
    {"lookup_store", "lookup_games", "lookup_scan",
     "remove_store", "remove_games", "remove_body",
     "add_store", "add_games", "add_body",
     "get_store", "get_games", "get_body"}

OpStep(t) ==
    \/ LookupLockStore(t) \/ LookupLockGames(t) \/ LookupByChannel(t)
    \/ RemoveLockStore(t) \/ RemoveLockGames(t) \/ RemoveBody(t)
    \/ AddLockStore(t) \/ AddLockGames(t) \/ AddBody(t)
    \/ GetLockStore(t) \/ GetLockGames(t) \/ GetBody(t)

\* The bot under fair scheduling, for its first MaxFairEvents messages: a
\* task that can go on inside a registry operation (its lock is free, or it
\* holds it) is polled and goes on. Nothing is asked of the random source
\* of shuffle_people, nor of the sends: a shuffle may retry for ever.
NextFair == Next /\ events' <= MaxFairEvents

SpecFair ==
    /\ Init
    /\ [][NextFair]_vars
    /\ \A t \in Tasks : WF_vars(OpStep(t))

\* SpecFair with a fair random source: the handler goes on when
\* shuffle_people returns an error, and an order free of avoided pairs that
\* thread_rng can draw at every retry is drawn sooner or later (a retry
\* changes nothing the tasks share, so such an order stays drawable from the
\* call to the return and weak fairness says as much as strong fairness).
SpecFairRandom ==
    /\ Init
    /\ [][NextFair]_vars
    /\ \A t \in Tasks :
        /\ WF_vars(OpStep(t))
        /\ WF_vars(GmShuffleFails(t))
        /\ WF_vars(GmShuffled(t))

\* ------------------------------------------------------------------ parser

\* A message is a vector of chars, each char a string; "U+00E9" stands for
\* the one char e-acute, which takes two bytes in UTF-8.

\* parser.rs:12
SHUFFLE_KEYWORD == <<"!", "s", "h", "u", "f", "f", "l", "e">>
\* parser.rs:13
SHUFFLE_KEYWORD_LENGTH == Len(SHUFFLE_KEYWORD)
\* parser.rs:14
MENTION_LENGTH == 21
\* parser.rs:15
ID_LENGTH == MENTION_LENGTH - 3

\* parser.rs:100: the chars of the digit arm, the digit d at place d + 1.
DigitChars == <<"0", "1", "2", "3", "4", "5", "6", "7", "8", "9">>

IsDigit(c) == \E i \in DOMAIN DigitChars : DigitChars[i] = c

DigitValue(c) == (CHOOSE i \in DOMAIN DigitChars : DigitChars[i] = c) - 1

\* The bytes char c takes in a String.
Utf8Len(c) == IF c = "U+00E9" THEN 2 ELSE 1

RECURSIVE Utf8Bytes(_)
Utf8Bytes(s) == IF s = <<>> THEN 0 ELSE Utf8Len(Head(s)) + Utf8Bytes(Tail(s))

\* The length counted in chars.
StrLenInChars(s) == Len(s)

\* String::len (parser.rs:21): the length in bytes.
StrLen(s) == Utf8Bytes(s)

\* Iterator::take(n).collect (parser.rs:28): the first n chars, or all.
Take(s, n) == SubSeq(s, 1, IF n < Len(s) THEN n ELSE Len(s))

ParseOk(ids) == [err |-> "None", ids |-> ids]
ParseErr(e) == [err |-> e, ids |-> <<>>]
NoParse == [err |-> "Pending", ids |-> <<>>]

\* The number a string of at most nine digits spells.
RECURSIVE Decimal(_)
Decimal(d) ==
    IF d = <<>> THEN 0
    ELSE Decimal(SubSeq(d, 1, Len(d) - 1)) * 10 + DigitValue(d[Len(d)])

\* parser.rs:120-121: str::parse::<u64> of a string of up to 18 digits, and
\* the UserId made of it. The u64 v is kept as <<v \div 10^9, v % 10^9>>:
\* its value is above what an integer holds here.
ParseU64(d) ==
    IF Len(d) <= 9 THEN <<0, Decimal(d)>>
    ELSE <<Decimal(SubSeq(d, 1, Len(d) - 9)),
           Decimal(SubSeq(d, Len(d) - 8, Len(d)))>>

\* parser.rs:97-113: the loop over the chars from place p on. It takes
\* digits into `mention` and stops after a '>' (break), after any other char
\* (return Err) or when the chars run out; `next` is the first char left.
RECURSIVE ScanMention(_, _, _)
ScanMention(msg, p, mention) ==
    IF p > Len(msg)
    THEN [stop |-> "end", mention |-> mention, next |-> p]
    ELSE IF IsDigit(msg[p])
    THEN ScanMention(msg, p + 1, Append(mention, msg[p]))
    ELSE IF msg[p] = ">"
    THEN [stop |-> "break", mention |-> mention, next |-> p + 1]
    ELSE [stop |-> "illegal", mention |-> mention, next |-> p + 1]

\* The test on the chars left with the '>' not counted.
MentionFitsWithoutEnd(msg, p) == Len(msg) - p + 1 >= MENTION_LENGTH - 2

\* parser.rs:75-76: chars_left >= MENTION_LENGTH - 1, the '<' being consumed.
MentionFits(msg, p) == Len(msg) - p + 1 >= MENTION_LENGTH - 1

\* parser.rs:74-125: parse_possible_mention with the iterator at place p
\* (the char after the '<'); `next` is where it leaves the iterator.
parse_possible_mention(msg, p) ==
    IF ~MentionFits(msg, p)
    THEN [err |-> "TooShort", id |-> 0, next |-> p]
    ELSE IF msg[p] # "@"
    THEN [err |-> "NotAMention", id |-> 0, next |-> p + 1]
    ELSE LET scan == ScanMention(msg, p + 1, <<>>)
         IN  IF scan.stop = "illegal"
             THEN [err |-> "IllegalCharacter", id |-> 0, next |-> scan.next]
             ELSE IF Len(scan.mention) # ID_LENGTH
             THEN [err |-> "IncorrectLength", id |-> 0, next |-> scan.next]
             ELSE [err |-> "None", id |-> ParseU64(scan.mention),
                   next |-> scan.next]

\* parser.rs:35-56: the loop of parse_shuffle_message from place p on.
RECURSIVE ParseLoop(_, _, _)
ParseLoop(msg, p, ppl) ==
    IF p > Len(msg) THEN ppl
    ELSE IF msg[p] # "<" THEN ParseLoop(msg, p + 1, ppl)
    ELSE LET mention == parse_possible_mention(msg, p + 1)
         IN  ParseLoop(msg, mention.next,
                       IF mention.err = "None"
                       THEN Append(ppl, mention.id) ELSE ppl)

\* parser.rs:20-60
parse_shuffle_message(msg) ==
    IF StrLen(msg) < SHUFFLE_KEYWORD_LENGTH
    THEN ParseErr("MessageTooShort")
    ELSE IF Take(msg, SHUFFLE_KEYWORD_LENGTH) # SHUFFLE_KEYWORD
    THEN ParseErr("NotShuffleMessage")
    ELSE ParseOk(ParseLoop(msg, SHUFFLE_KEYWORD_LENGTH + 1, <<>>))

\* The messages SpecParse draws: up to MaxPieces pieces, one after another.
\* A piece is the keyword, the keyword cut short, one char, a run of
\* ID_LENGTH - 1 zeros, or the mention of a user (the id padded with zeros).
Zeros(n) == [k \in 1..n |-> "0"]

Mention(id) ==
    <<"<", "@">> \o Zeros(ID_LENGTH - 1) \o <<DigitChars[id + 1]>> \o <<">">>

Pieces ==
    {SHUFFLE_KEYWORD, SubSeq(SHUFFLE_KEYWORD, 1, SHUFFLE_KEYWORD_LENGTH - 1),
     <<"U+00E9">>, <<"<">>, <<"@">>, <<">">>, <<"x">>, <<"7">>,
     Zeros(ID_LENGTH - 1)}
    \cup {Mention(id) : id \in Ids}

RECURSIVE Concat(_)
Concat(ps) == IF ps = <<>> THEN <<>> ELSE Head(ps) \o Concat(Tail(ps))

Messages == {Concat(ps) : ps \in SeqsUpTo(Pieces, MaxPieces)}

\* parse_shuffle_message is called with a message.
InitParse ==
    /\ message \in Messages
    /\ parsed = NoParse
    /\ people = <<>>
    /\ avoid_pairs = <<>>
    /\ sh_pc = "done"
    /\ sh_players = <<>>
    /\ sh_depth = 0
    /\ sh_result = NoResult
    /\ games = <<>>
    /\ store_w = 0
    /\ store_r = {}
    /\ games_w = 0
    /\ games_r = {}
    /\ task = <<>>
    /\ events = 0
    /\ last_round = <<>>
    /\ overlap = FALSE
    /\ h = <<>>
    /\ outbox = <<>>

\* parser.rs:20-60: the call returns.
ParseReturn ==
    /\ parsed = NoParse
    /\ parsed' = parse_shuffle_message(message)
    /\ UNCHANGED message
    /\ UNCHANGED <<shvars, botvars, handlervars>>

NextParse == ParseReturn

SpecParse == InitParse /\ [][NextParse]_vars

\* parse_possible_mention is called with the chars that follow a '<': the
\* iterator stands at the first char of `message`.
NoMention == [err |-> "Pending", id |-> 0, next |-> 0]

InitMention ==
    /\ message \in Messages
    /\ parsed = NoMention
    /\ people = <<>>
    /\ avoid_pairs = <<>>
    /\ sh_pc = "done"
    /\ sh_players = <<>>
    /\ sh_depth = 0
    /\ sh_result = NoResult
    /\ games = <<>>
    /\ store_w = 0
    /\ store_r = {}
    /\ games_w = 0
    /\ games_r = {}
    /\ task = <<>>
    /\ events = 0
    /\ last_round = <<>>
    /\ overlap = FALSE
    /\ h = <<>>
    /\ outbox = <<>>

\* parser.rs:74-125: the call returns.
MentionReturn ==
    /\ parsed = NoMention
    /\ parsed' = parse_possible_mention(message, 1)
    /\ UNCHANGED message
    /\ UNCHANGED <<shvars, botvars, handlervars>>

NextMention == MentionReturn

SpecMention == InitMention /\ [][NextMention]_vars

\* ------------------------------------------------- handlers, one at a time

\* An outgoing message: to a guild channel (ChannelId::say) or to a user's
\* private channel (PrivateChannel::say); `sent` is whether the send
\* returned Ok. Reports to a channel end in .ok(): their result is dropped,
\* and they are kept as sent.
ToChannel(channel) == <<"channel", channel>>
ToUser(user) == <<"user", user>>
Say(to, kind, arg, sent) ==
    [to |-> to, kind |-> kind, arg |-> arg, sent |-> sent]

\* No handler has run yet.
NoHandler ==
    [pc |-> "idle", path |-> "none", content |-> <<>>, channel |-> 0,
     mentioned |-> <<>>, found |-> None, pairs |-> <<>>, i |-> 0,
     author |-> 0, bot |-> FALSE, before |-> EmptyMap]

\* The texts of the guild messages SpecHandlers draws.
GuildContents ==
    {<<"x">>, Zeros(ID_LENGTH - 1), SHUFFLE_KEYWORD,
     SHUFFLE_KEYWORD \o Mention(1)}

\* Only a message that is too short counts as rejected.
RejectedWhenTooShort(content) ==
    parse_shuffle_message(content).err = "MessageTooShort"

\* main.rs:93: `if let Err(e) = parser::parse_shuffle_message(msg.content)`
Rejected(content) == parse_shuffle_message(content).err # "None"

\* The texts that are rejected, and those that go on as commands.
RejectedContents == {content \in GuildContents : Rejected(content)}
CommandContents == GuildContents \ RejectedContents

\* Every player is taken for the host.
IsHostAlways(player, pairs) == TRUE

\* main.rs:146 and 179: `*player == host`, host being pairs[0].0
IsHost(player, pairs) == player = pairs[1][1]

\* main.rs:93-97: the parser rejects the message; the handler returns.
HRejected ==
    /\ h.pc = "idle"
    /\ \E content \in RejectedContents, channel \in Channels :
        /\ h' = [NoHandler EXCEPT !.path = "rejected", !.content = content,
                                  !.channel = channel, !.before = games]
    /\ outbox' = <<>>
    /\ UNCHANGED <<games, locks, task, events, last_round, overlap>>
    /\ UNCHANGED <<shvars, parservars>>

\* main.rs:99-111: fewer than 3 non-bot mentions; reported, then return.
HTooFewMentions ==
    /\ h.pc = "idle"
    /\ \E content \in CommandContents, channel \in Channels,
          mentioned \in MentionLists :
        /\ Len(mentioned) < 3
        /\ h' = [NoHandler EXCEPT !.path = "too_few", !.content = content,
                                  !.channel = channel,
                                  !.mentioned = mentioned, !.before = games]
        /\ outbox' = <<Say(ToChannel(channel), "TooFewMentions", 0, TRUE)>>
    /\ UNCHANGED <<games, locks, task, events, last_round, overlap>>
    /\ UNCHANGED <<shvars, parservars>>

\* main.rs:113-130: the channel's game is looked up, shuffle_people returns
\* an error; reported, then return.
HShuffleFails ==
    /\ h.pc = "idle"
    /\ \E content \in CommandContents, channel \in Channels,
          mentioned \in MentionLists :
        /\ Len(mentioned) >= 3
        /\ \E found \in ScanResults(games, channel) :
            /\ PreCheck(mentioned, AvoidOf(found)) # "None"
            /\ h' = [NoHandler EXCEPT
                 !.path = "shuffle_failed", !.content = content,
                 !.channel = channel, !.mentioned = mentioned,
                 !.found = found, !.before = games]
            /\ outbox' =
                 <<Say(ToChannel(channel), "ShuffleError",
                       PreCheck(mentioned, AvoidOf(found)), TRUE)>>
    /\ UNCHANGED <<games, locks, task, events, last_round, overlap>>
    /\ UNCHANGED <<shvars, parservars>>

\* main.rs:113-146: the channel's game is looked up, shuffle_people returns
\* Ok(pairs) (after its retries), the game found is removed, the new game is
\* added; the notification loop is next.
HShuffled ==
    /\ h.pc = "idle"
    /\ \E content \in CommandContents, channel \in Channels,
          mentioned \in MentionLists :
        /\ Len(mentioned) >= 3
        /\ \E found \in ScanResults(games, channel) :
            /\ PreCheck(mentioned, AvoidOf(found)) = "None"
            /\ \E order \in Shuffles(Dedup(Sort(mentioned))) :
                /\ ~HitsAvoided(order, AvoidOf(found))
                /\ games' =
                     InsertGame(IF found = None THEN games
                                ELSE RemoveGame(games, found[1]),
                                new_game(channel, Tuples(order)))
                /\ h' = [NoHandler EXCEPT
                     !.pc = "notify", !.path = "shuffled",
                     !.content = content, !.channel = channel,
                     !.mentioned = mentioned, !.found = found,
                     !.pairs = Tuples(order), !.i = 1, !.before = games]
    /\ outbox' = <<>>
    /\ UNCHANGED <<locks, task, events, last_round, overlap>>
    /\ UNCHANGED <<shvars, parservars>>

\* main.rs:148-194: one turn of the loop, for the pair (player, avatar).
\* create_dm_channel fails: reported, return. Otherwise the assignment is
\* sent, and the host notice when the player is the host; a send that fails
\* is reported and the loop goes on.
HNotify ==
    /\ h.pc = "notify"
    /\ LET player == h.pairs[h.i][1]
           avatar == h.pairs[h.i][2]
           here == ToChannel(h.channel)
       IN  \E opened, sent, host_sent \in BOOLEAN :
            IF ~opened
            THEN /\ outbox' =
                      Append(outbox, Say(here, "DmChannelError", player, TRUE))
                 /\ h' = [h EXCEPT !.pc = "idle"]
            ELSE /\ outbox' =
                      outbox
                      \o <<Say(ToUser(player), "PlayAs", avatar, sent)>>
                      \o (IF sent THEN <<>>
                          ELSE <<Say(here, "DmError", player, TRUE)>>)
                      \o (IF ~IsHost(player, h.pairs) THEN <<>>
                          ELSE <<Say(ToUser(player), "HostNotice", 0,
                                     host_sent)>>
                               \o (IF host_sent THEN <<>>
                                   ELSE <<Say(here, "HostDmError", 0, TRUE)>>))
                 /\ h' = [h EXCEPT
                      !.pc = IF h.i = Len(h.pairs) THEN "idle" ELSE "notify",
                      !.i = h.i + 1]
    /\ UNCHANGED <<games, locks, task, events, last_round, overlap>>
    /\ UNCHANGED <<shvars, parservars>>

\* main.rs:206-233: a private message of `author`. From a bot, or with no
\* game under the author: return. Otherwise the message is said on the
\* game's channel; when that fails, it is reported on the private channel.
HDirect ==
    /\ h.pc = "idle"
    /\ \E author \in Ids, bot, sent \in BOOLEAN :
        LET found == MapGet(games, author)
        IN  /\ h' = [NoHandler EXCEPT !.path = "direct", !.author = author,
                                      !.bot = bot, !.before = games]
            /\ outbox' =
                 IF bot \/ found = None THEN <<>>
                 ELSE <<Say(ToChannel(found[1].channel), "Relay", author,
                            sent)>>
                      \o (IF sent THEN <<>>
                          ELSE <<Say(ToUser(author), "RelayError", 0, TRUE)>>)
    /\ UNCHANGED <<games, locks, task, events, last_round, overlap>>
    /\ UNCHANGED <<shvars, parservars>>

\* main.rs:272-275: the store holds an empty map; no handler has run.
InitHandlers ==
    /\ games = EmptyMap
    /\ h = NoHandler
    /\ outbox = <<>>
    /\ store_w = NoTask
    /\ store_r = {}
    /\ games_w = NoTask
    /\ games_r = {}
    /\ task = [t \in Tasks |-> IdleTask]
    /\ events = 0
    /\ last_round = None
    /\ overlap = FALSE
    /\ people = <<>>
    /\ avoid_pairs = <<>>
    /\ sh_pc = "done"
    /\ sh_players = <<>>
    /\ sh_depth = 0
    /\ sh_result = NoResult
    /\ message = <<>>
    /\ parsed = <<>>

NextHandlers ==
    \/ HRejected
    \/ HTooFewMentions
    \/ HShuffleFails
    \/ HShuffled
    \/ HNotify
    \/ HDirect

SpecHandlers == InitHandlers /\ [][NextHandlers]_vars

\* The handlers from the state an earlier request with MaxMentions + 1
\* mentions leaves: its round is registered for channel 1, the pairs one
\* cycle through its players as shuffle_people and add_game left them.
InitHandlersAfterRound ==
    /\ games = InsertGame(EmptyMap,
                new_game(1, Tuples([i \in 1..(MaxMentions + 1) |-> i])))
    /\ h = NoHandler
    /\ outbox = <<>>
    /\ store_w = NoTask
    /\ store_r = {}
    /\ games_w = NoTask
    /\ games_r = {}
    /\ task = [t \in Tasks |-> IdleTask]
    /\ events = 0
    /\ last_round = None
    /\ overlap = FALSE
    /\ people = <<>>
    /\ avoid_pairs = <<>>
    /\ sh_pc = "done"
    /\ sh_players = <<>>
    /\ sh_depth = 0
    /\ sh_result = NoResult
    /\ message = <<>>
    /\ parsed = <<>>

SpecHandlersAfterRound == InitHandlersAfterRound /\ [][NextHandlers]_vars

\* ----------------------------------------------------- shuffle_people: claims

Distinct(s) == \A i, j \in DOMAIN s : i # j => s[i] # s[j]

Returned == sh_pc = "done"

ReturnedOk == sh_pc = "done" /\ sh_result.err = "None"

\* One pair per participant, no (x, x), each target the next assignee, the
\* last target the first assignee, everyone once as assignee and as target.
IsSingleCycle(pairs, ppl) ==
    LET n == Len(pairs)
    IN  /\ n = Len(ppl)
        /\ \A i \in 1..n : pairs[i][1] # pairs[i][2]
        /\ \A i \in 1..n : pairs[i][2] = pairs[(i % n) + 1][1]
        /\ \A x \in Range(ppl) :
            /\ Cardinality({i \in 1..n : pairs[i][1] = x}) = 1
            /\ Cardinality({i \in 1..n : pairs[i][2] = x}) = 1

\* C2: for 3 or more pairwise-distinct participants, a returned result has
\* one pair per participant, no pair (x, x), and is one single cycle
\* through every participant.
C2_ResultIsSingleCycle ==
    (ReturnedOk /\ Len(people) >= 3 /\ Distinct(people))
        => IsSingleCycle(sh_result.pairs, people)

C2_Witness ==
    /\ ReturnedOk
    /\ Len(people) >= 3
    /\ Distinct(people)
    /\ sh_result.pairs # <<>>

\* C3: with a non-empty avoid-list no longer than the participant list, no
\* pair of a returned result is in the avoid-list, after any number of
\* retries.
C3_ResultAvoidsExclusions ==
    (ReturnedOk /\ avoid_pairs # <<>> /\ Len(avoid_pairs) <= Len(people))
        => \A i \in DOMAIN sh_result.pairs :
               ~Contains(avoid_pairs, sh_result.pairs[i])

C3_Witness ==
    /\ ReturnedOk
    /\ avoid_pairs # <<>>
    /\ Len(avoid_pairs) <= Len(people)
    /\ sh_depth >= 2
    /\ sh_result.pairs # <<>>

\* C5 as claimed: every participant list with a repeated identifier fails
\* with DuplicatesDetected, whatever the avoid-list.
C5_AnyDuplicateFails ==
    (Returned /\ ~Distinct(people)) => sh_result.err = "DuplicatesDetected"

\* C5 amended: a participant list of at least 3 entries with a repeated
\* identifier fails with DuplicatesDetected when the avoid-list has no more
\* entries than the participant list.
C5_DuplicateFailsAfterSizeChecks ==
    (/\ Returned
     /\ ~Distinct(people)
     /\ Len(people) >= MinPeople
     /\ Len(avoid_pairs) <= Len(people))
        => sh_result.err = "DuplicatesDetected"

C5_Witness ==
    /\ Returned
    /\ ~Distinct(people)
    /\ Len(people) >= MinPeople
    /\ avoid_pairs # <<>>
    /\ sh_result.err = "DuplicatesDetected"

\* C6 as claimed: every participant list with fewer than 3 distinct
\* identifiers fails with TooFewPeople.
C6_FewDistinctFails ==
    (Returned /\ Cardinality(Range(people)) < 3)
        => sh_result.err = "TooFewPeople"

\* C6 amended: every participant list with fewer than 3 entries, repeats
\* counted, fails with TooFewPeople.
C6_FewEntriesFails ==
    (Returned /\ Len(people) < 3) => sh_result.err = "TooFewPeople"

C6_Witness ==
    /\ Returned
    /\ Len(people) = 2
    /\ avoid_pairs # <<>>
    /\ sh_result.err = "TooFewPeople"

\* C7 as claimed: whenever the avoid-list has more entries than the
\* participant list, the call fails with TooManyExclusions.
C7_LongAvoidFails ==
    (Returned /\ Len(avoid_pairs) > Len(people))
        => sh_result.err = "TooManyExclusions"

\* C7 amended: whenever the participant list has at least 3 entries and the
\* avoid-list has more entries than it, the call fails with
\* TooManyExclusions.
C7_LongAvoidFailsFromThree ==
    (Returned /\ Len(people) >= MinPeople /\ Len(avoid_pairs) > Len(people))
        => sh_result.err = "TooManyExclusions"

C7_Witness ==
    /\ Returned
    /\ Len(people) >= MinPeople
    /\ ~Distinct(people)
    /\ Len(avoid_pairs) > Len(people)
    /\ sh_result.err = "TooManyExclusions"

\* The avoid-list is the n pairs of one full cycle over the n >= 3 distinct
\* participants.
AvoidIsFullCycle ==
    /\ Len(people) >= 3
    /\ Distinct(people)
    /\ Len(avoid_pairs) = Len(people)
    /\ \E order \in Shuffles(people) :
           Range(avoid_pairs) = Range(Tuples(order))

\* C8: with n >= 3 distinct participants and an avoid-list that is one full
\* cycle over them, the call returns no error and, the random source being
\* fair, it does return a result.
C8_FullCycleAvoidReturns ==
    [](AvoidIsFullCycle => <>ReturnedOk)

C8_Witness ==
    /\ AvoidIsFullCycle
    /\ ReturnedOk
    /\ sh_depth >= 1
    /\ IsSingleCycle(sh_result.pairs, people)

\* ------------------------------------------------------------ the bot: claims

\* C1: under any interleaving of shuffle requests, the registry never holds
\* two rounds with the same channel.
C1_OneRoundPerChannel ==
    \A a, b \in DOMAIN games :
        a # b => games[a].channel # games[b].channel

\* A shuffle request that runs alone right after the shuffle request that
\* registered last_round, on the same channel.
SecondInARow(t) ==
    /\ InGuild(t)
    /\ ~overlap
    /\ last_round # None
    /\ last_round[1].channel = task[t].channel

\* C4: of two shuffle requests for one channel handled one after the other,
\* both succeeding, the second shuffles with exactly the first round's
\* pairs as its avoid-list (the same pairs, in whatever order; so it found
\* a round and goes on to remove it), and the round it registers holds
\* none of the first round's pairs.
C4_SecondAvoidsFirst ==
    \A t \in Tasks :
        SecondInARow(t) =>
            /\ task[t].pc = "remove_store"
                => Range(AvoidOf(task[t].game)) = Range(last_round[1].pairs)
            /\ task[t].pc = "add_store" => task[t].ret # None
            /\ task[t].pc = "notify" =>
                /\ MapGet(games, task[t].pairs[1][1])
                     = Some(new_game(task[t].channel, task[t].pairs))
                /\ \A i \in DOMAIN task[t].pairs :
                     ~Contains(last_round[1].pairs, task[t].pairs[i])

\* Task t's add_game runs its body in this step.
AddGameStep(t) == task[t].pc = "add_body" /\ task'[t].pc = "notify"

\* C9: once a round A is in the registry and a round B of the same channel
\* and another owner is put, the lookup by A's owner finds nothing and the
\* lookup by the channel finds B.
C9_PutReplacesChannelRound ==
    [][\A t \in Tasks :
        AddGameStep(t) =>
            LET B == new_game(task[t].channel, task[t].pairs)
            IN  \A a \in DOMAIN games :
                    (games[a].channel = B.channel /\ a # B.owner)
                        => /\ MapGet(games', a) = None
                           /\ ScanResults(games', B.channel) = {Some(B)}]_vars

\* Task t's remove_game runs its body in this step.
RemoveGameStep(t) == task[t].pc = "remove_body" /\ task'[t].pc = "add_store"

\* C10: remove_game called with a game whose owner has no entry returns
\* None and leaves every entry of the registry as it was.
C10_RemoveAbsentChangesNothing ==
    [][\A t \in Tasks :
        (RemoveGameStep(t) /\ task[t].game[1].owner \notin DOMAIN games)
            => /\ task'[t].ret = Some(None)
               /\ games' = games]_vars

C10_Witness ==
    \E t \in Tasks :
        /\ task[t].pc = "add_store"
        /\ task[t].ret = Some(None)
        /\ games # EmptyMap

\* Task t is inside a registry write (add_game, remove_game) or a registry
\* read (get_game, get_game_by_channel_id), the lock on the games held.
InWrite(t) == task[t].pc \in {"remove_body", "add_body"}
InRead(t) == task[t].pc \in {"lookup_scan", "get_body"}

\* C15: while a registry write holds the lock on the games, no other
\* registry operation, read or write, holds it; reads may share it.
C15_WritesExcludeAll ==
    /\ games_w # NoTask => games_r = {}
    /\ \A t, u \in Tasks :
        (t # u /\ InWrite(t)) => (~InWrite(u) /\ ~InRead(u))
    /\ \A t \in Tasks :
        /\ InWrite(t) <=> games_w = t
        /\ InRead(t) <=> t \in games_r

\* A write holds the lock while another operation waits for it.
C15_Witness ==
    \E t, u \in Tasks :
        /\ InWrite(t)
        /\ task[u].pc \in {"lookup_store", "get_store", "remove_store",
                           "add_store"}

\* C16: every entry of the registry is stored under its game's owner, and
\* the owner is the assignee of the first pair of the game's pairs.
C16_KeyIsOwnerIsFirstAssignee ==
    \A k \in DOMAIN games :
        /\ games[k].owner = k
        /\ games[k].pairs[1][1] = k

\* Two games are registered.
C16_Witness == Cardinality(DOMAIN games) = 2

\* -------------------------------------------------------------- parser: claims

ParseReturned == parsed # <<>> /\ parsed # NoParse

\* The message begins with the chars of the keyword.
BeginsWithKeyword(msg) ==
    /\ Len(msg) >= Len(SHUFFLE_KEYWORD)
    /\ \A i \in DOMAIN SHUFFLE_KEYWORD : msg[i] = SHUFFLE_KEYWORD[i]

\* A well-formed mention stands at place k: '<', '@', 18 digits, '>'.
WellFormedAt(msg, k) ==
    /\ k + 20 <= Len(msg)
    /\ msg[k] = "<"
    /\ msg[k + 1] = "@"
    /\ \A j \in 2..19 : IsDigit(msg[k + j])
    /\ msg[k + 20] = ">"

\* The identifiers of the well-formed mentions from place k on, in order.
RECURSIVE MentionsFrom(_, _)
MentionsFrom(msg, k) ==
    IF k > Len(msg) THEN <<>>
    ELSE IF WellFormedAt(msg, k)
    THEN <<ParseU64(SubSeq(msg, k + 2, k + 19))>> \o MentionsFrom(msg, k + 1)
    ELSE MentionsFrom(msg, k + 1)

\* C19: for a message that starts with the keyword, parse_shuffle_message
\* returns the identifiers of the well-formed mentions of the message, all
\* of them and no others, in the order in which they stand.
C19_ReturnsEveryMention ==
    (ParseReturned /\ BeginsWithKeyword(message))
        => /\ parsed.err = "None"
           /\ parsed.ids = MentionsFrom(message, 1)

\* The message is shorter than the keyword, counted in chars.
C20_ErrorsByCharCount ==
    ParseReturned =>
        /\ parsed.err = "MessageTooShort"
            <=> Len(message) < Len(SHUFFLE_KEYWORD)
        /\ parsed.err = "NotShuffleMessage"
            <=> (Len(message) >= Len(SHUFFLE_KEYWORD)
                 /\ ~BeginsWithKeyword(message))
        /\ parsed.err = "None" <=> BeginsWithKeyword(message)

\* C20: parse_shuffle_message returns MessageTooShort exactly when the
\* message takes fewer bytes than the keyword, NotShuffleMessage exactly when
\* it takes at least as many bytes and does not begin with the keyword, and
\* a list of mentions in every other case.
C20_ErrorsByByteCount ==
    ParseReturned =>
        /\ parsed.err = "MessageTooShort"
            <=> Utf8Bytes(message) < Utf8Bytes(SHUFFLE_KEYWORD)
        /\ parsed.err = "NotShuffleMessage"
            <=> (Utf8Bytes(message) >= Utf8Bytes(SHUFFLE_KEYWORD)
                 /\ ~BeginsWithKeyword(message))
        /\ parsed.err = "None" <=> BeginsWithKeyword(message)

\* A message of fewer chars than the keyword and as many bytes was parsed.
C20_Witness ==
    /\ ParseReturned
    /\ Len(message) < Len(SHUFFLE_KEYWORD)
    /\ Utf8Bytes(message) >= Utf8Bytes(SHUFFLE_KEYWORD)
    /\ parsed.err = "NotShuffleMessage"

\* ------------------------------------------------------------ handlers: claims

\* The last handler has returned; it handled a guild message (whose text
\* the parser took for a command), or a private message.
HReturned == h.pc = "idle" /\ h.path # "none"
HGuild == h.path \in {"rejected", "too_few", "shuffle_failed", "shuffled"}
HCommand == HGuild /\ BeginsWithKeyword(h.content)

\* Messages to a user's private channel, and reports of a failure.
IsDm(e) == e.to[1] = "user"
IsReport(e) ==
    e.kind \in {"DmChannelError", "DmError", "HostDmError", "RelayError"}

\* The error a shuffle request with these mentions and this game found on
\* the channel ends with, "None" when it ends with none.
ExpectedFailure(mentioned, found) ==
    IF Len(mentioned) < 3 THEN "TooFewMentions"
    ELSE IF found # None /\ Len(found[1].pairs) > Len(mentioned)
    THEN "TooManyExclusions"
    ELSE IF ~Distinct(mentioned) THEN "DuplicatesDetected"
    ELSE "None"

\* C11: a shuffle request that fails (fewer than 3 non-bot mentions, or an
\* error of shuffle_people) leaves the registry as it was, reports the error
\* to the requesting channel and sends nothing to any participant.
C11_FailedRequestChangesNothing ==
    (HReturned /\ HCommand
       /\ ExpectedFailure(h.mentioned, h.found) # "None")
        => /\ games = h.before
           /\ Len(outbox) = 1
           /\ outbox[1].to = ToChannel(h.channel)
           /\ ExpectedFailure(h.mentioned, h.found)
                \in {outbox[1].kind, outbox[1].arg}
           /\ \A i \in DOMAIN outbox : ~IsDm(outbox[i])

\* shuffle_people failed while a game of the channel was registered.
C11_Witness ==
    /\ HReturned
    /\ h.path = "shuffle_failed"
    /\ h.found # None
    /\ h.found \in ScanResults(games, h.channel)
    /\ Len(outbox) = 1

\* The delivery to a participant failed: the private channel did not open,
\* or the assignment was not sent.
IsFailedDelivery(e) ==
    e.kind = "DmChannelError" \/ (e.kind = "PlayAs" /\ ~e.sent)

\* C12: in the notification loop, after the first delivery that fails no
\* later participant is contacted, and that failure is the only one
\* reported.
C12_LoopStopsAtFirstFailure ==
    h.path = "shuffled" =>
        \A i \in DOMAIN outbox :
            IsFailedDelivery(outbox[i]) =>
                /\ \A j \in DOMAIN outbox :
                     (j > i /\ IsDm(outbox[j]))
                        => outbox[j].to = outbox[i].to
                            \/ outbox[j].to = ToUser(outbox[i].arg)
                /\ Cardinality({j \in DOMAIN outbox : IsReport(outbox[j])})
                     = 1

\* C13: from the moment before the first notification is attempted, and
\* whatever notification step fails, the new round is in the registry under
\* its host, as it was inserted.
C13_RoundStaysRegistered ==
    h.path = "shuffled" =>
        LET host == h.pairs[1][1]
        IN  /\ host \in DOMAIN games
            /\ games[host] =
                 [owner |-> host, channel |-> h.channel, pairs |-> h.pairs]
            /\ (outbox = <<>> /\ h.pc = "notify") => h.i = 1

\* The loop has ended with a failure reported.
C13_Witness ==
    /\ HReturned
    /\ h.path = "shuffled"
    /\ \E i \in DOMAIN outbox : IsReport(outbox[i])
    /\ h.pairs[1][1] \in DOMAIN games

\* C14: a private message of an author with no game registered under them
\* sends nothing and changes nothing in the registry; a private message of a
\* non-bot author with a game is relayed to that game's channel and to no
\* other channel.
C14_RelayOnlyForHosts ==
    (HReturned /\ h.path = "direct") =>
        /\ games = h.before
        /\ h.author \notin DOMAIN h.before => outbox = <<>>
        /\ (~h.bot /\ h.author \in DOMAIN h.before) =>
            /\ outbox # <<>>
            /\ outbox[1].kind = "Relay"
            /\ \A i \in DOMAIN outbox :
                 outbox[i].to[1] = "channel"
                    => outbox[i].to = ToChannel(h.before[h.author].channel)

\* A host's private message was relayed while games of two channels were
\* registered.
C14_Witness ==
    /\ HReturned
    /\ h.path = "direct"
    /\ ~h.bot
    /\ h.author \in DOMAIN games
    /\ \E k \in DOMAIN games : games[k].channel # games[h.author].channel
    /\ outbox # <<>>

\* C17: a guild message the parser rejects changes nothing in the registry
\* and sends no message.
C17_RejectedIsSilent ==
    (HReturned /\ HGuild /\ ~BeginsWithKeyword(h.content))
        => games = h.before /\ outbox = <<>>

\* A rejected message was handled while a game was registered.
C17_Witness ==
    /\ HReturned
    /\ h.path = "rejected"
    /\ games # EmptyMap
    /\ Len(h.content) >= Len(SHUFFLE_KEYWORD)

\* The loop ran to its end and nothing failed.
NotifiedAll ==
    /\ HReturned
    /\ h.path = "shuffled"
    /\ \A i \in DOMAIN outbox : outbox[i].sent /\ ~IsReport(outbox[i])

\* C18: after a successful shuffle with no transport failure, every
\* participant has been sent exactly one assignment, naming the target of
\* their pair, and the host notice has been sent exactly once, to the
\* assignee of the first pair; nothing else has been sent.
C18_EveryoneToldOnce ==
    NotifiedAll =>
        /\ \A p \in DOMAIN h.pairs :
             Cardinality({i \in DOMAIN outbox :
                            /\ outbox[i].kind = "PlayAs"
                            /\ outbox[i].to = ToUser(h.pairs[p][1])}) = 1
        /\ \A i \in DOMAIN outbox :
             outbox[i].kind = "PlayAs" =>
                \E p \in DOMAIN h.pairs :
                    /\ outbox[i].to = ToUser(h.pairs[p][1])
                    /\ outbox[i].arg = h.pairs[p][2]
        /\ Cardinality({i \in DOMAIN outbox : outbox[i].kind = "HostNotice"})
             = 1
        /\ \A i \in DOMAIN outbox :
             /\ outbox[i].kind \in {"PlayAs", "HostNotice"}
             /\ outbox[i].kind = "HostNotice"
                    => outbox[i].to = ToUser(h.pairs[1][1])

C18_Witness == NotifiedAll /\ Len(outbox) = Len(h.pairs) + 1

\* ------------------------------------------------------- claims C21 to C28

BeginsWith(msg, prefix) ==
    /\ Len(msg) >= Len(prefix)
    /\ \A i \in DOMAIN prefix : msg[i] = prefix[i]

\* What a second, short command prefix could be: the first chars of a
\* piece, no more of them than the keyword has, and not the keyword.
ShortFormCandidates ==
    {Take(piece, n) : piece \in Pieces, n \in 1..Len(SHUFFLE_KEYWORD)}
        \ {SHUFFLE_KEYWORD}

AcceptedMessages == {m \in Messages : parse_shuffle_message(m).err = "None"}

\* The messages parse_shuffle_message accepts are those that begin with one
\* of the prefixes.
AcceptsExactly(prefixes) ==
    \A m \in Messages :
        m \in AcceptedMessages
            <=> \E prefix \in prefixes : BeginsWith(m, prefix)

\* C21: the recognizer accepts two distinct literal command prefixes, a
\* long form and a short form, and rejects every message that begins with
\* neither.
C21_TwoCommandPrefixes ==
    ParseReturned =>
        \E short \in ShortFormCandidates :
            AcceptsExactly({SHUFFLE_KEYWORD, short})

\* C23: whenever the three checks of shuffle_people pass, some order of the
\* participants gives a cycle with no avoided pair (so that a fair random
\* source ends the retries).
C23_SomeOrderAvoidsAll ==
    sh_pc = "shuffle" =>
        \E order \in Shuffles(sh_players) : ~HitsAvoided(order, avoid_pairs)

\* The digits from place k on, up to the first char that is no digit.
RECURSIVE DigitRun(_, _)
DigitRun(msg, k) ==
    IF k > Len(msg) \/ ~IsDigit(msg[k]) THEN <<>>
    ELSE <<msg[k]>> \o DigitRun(msg, k + 1)

\* The number a string of digits spells, read from the left; the number 18
\* digits spell, as its upper and its lower nine digits.
RECURSIVE Spelled(_, _)
Spelled(digits, sofar) ==
    IF digits = <<>> THEN sofar
    ELSE Spelled(Tail(digits), sofar * 10 + DigitValue(Head(digits)))

Spelled18(digits) ==
    <<Spelled(SubSeq(digits, 1, 9), 0), Spelled(SubSeq(digits, 10, 18), 0)>>

\* What the claim gives for the chars `msg` that follow a '<'.
MentionOutcome(msg) ==
    LET run == DigitRun(msg, 2)
        after == Len(run) + 2
    IN  IF Len(msg) < 20 THEN [err |-> "TooShort", id |-> 0]
        ELSE IF msg[1] # "@" THEN [err |-> "NotAMention", id |-> 0]
        ELSE IF after <= Len(msg) /\ msg[after] # ">"
        THEN [err |-> "IllegalCharacter", id |-> 0]
        ELSE IF Len(run) # 18 THEN [err |-> "IncorrectLength", id |-> 0]
        ELSE [err |-> "None", id |-> Spelled18(run)]

\* C28: parse_possible_mention returns TooShort when fewer than 20 chars
\* are left; otherwise NotAMention when the next char is not '@'; otherwise
\* IllegalCharacter when a char that is no digit stands before the closing
\* '>'; otherwise IncorrectLength when the digits are not 18; otherwise the
\* identifier the 18 digits spell.
C28_MentionChecksInOrder ==
    parsed # NoMention =>
        /\ parsed.err = MentionOutcome(message).err
        /\ parsed.id = MentionOutcome(message).id

\* The chars of a whole mention were parsed to its identifier.
C28_Witness ==
    /\ parsed # NoMention
    /\ Len(message) = 20
    /\ parsed.err = "None"
    /\ parsed.id = <<0, 7>>

\* Task t holds neither lock, as reader or as writer.
HoldsNoLock(t) ==
    /\ store_w # t
    /\ games_w # t
    /\ t \notin store_r
    /\ t \notin games_r

\* C22: while shuffle_people runs in a handler, retries included, the
\* handler holds no lock of the registry, and a registry operation of
\* another handler, with no third one in its way, can take its next step.
C22_ShuffleHoldsNoLock ==
    \A t \in Tasks :
        task[t].pc = "shuffle" =>
            /\ HoldsNoLock(t)
            /\ \A u \in Tasks \ {t} :
                 (/\ task[u].pc \in OpPcs
                  /\ \A v \in Tasks \ {t, u} : task[v].pc \notin OpPcs)
                    => ENABLED OpStep(u)

\* A handler is inside shuffle_people while another waits for a write lock.
C22_Witness ==
    \E t, u \in Tasks :
        /\ task[t].pc = "shuffle"
        /\ task[t].game # None
        /\ task[u].pc \in {"remove_store", "add_store"}

\* C26: the remove_game of a shuffle request on a channel deletes no entry
\* of the registry but one whose game is of that channel.
C26_EvictsOwnChannelOnly ==
    [][\A t \in Tasks :
        RemoveGameStep(t) =>
            \A k \in DOMAIN games \ DOMAIN games' :
                games[k].channel = task[t].channel]_vars

\* Task t holds the inner lock on the games only inside the outer lock on
\* the data store.
OuterBeforeInner(t) ==
    /\ games_w = t => store_w = t
    /\ t \in games_r => t \in store_r
    /\ task[t].pc \notin OpPcs => HoldsNoLock(t)

\* C27: every registry operation takes the outer lock before the inner one
\* and has released both when it has returned, and every registry operation
\* that has started completes.
C27_OperationsComplete ==
    /\ [](\A t \in Tasks : OuterBeforeInner(t))
    /\ \A t \in Tasks :
        (task[t].pc \in OpPcs) ~> (task[t].pc \notin OpPcs)

\* A writer waits for the outer lock while a reader holds both locks.
C27_Witness ==
    \E t, u \in Tasks :
        /\ task[t].pc \in {"remove_store", "add_store"}
        /\ u \in store_r
        /\ u \in games_r

\* The avoid-list of task t's shuffle request is empty, or it is the pairs
\* of a game of the request's channel, one cycle through that game's players.
AvoidIsARound(t) ==
    LET avoid == AvoidOf(task[t].game)
    IN  avoid # <<>> =>
            /\ task[t].game[1].channel = task[t].channel
            /\ avoid = task[t].game[1].pairs
            /\ IsSingleCycle(avoid, [i \in DOMAIN avoid |-> avoid[i][1]])

\* When the avoid-list is no longer than the list of distinct participants,
\* some order of them has no avoided pair.
SomeOrderIsFree(t) ==
    LET avoid == AvoidOf(task[t].game)
        players == task[t].mentioned
    IN  (Distinct(players) /\ Len(players) >= 3 /\ Len(avoid) <= Len(players))
            => \E order \in Shuffles(players) :
                    \A i \in DOMAIN order :
                        ~Contains(avoid, <<order[i],
                                           order[(i % Len(order)) + 1]>>)

\* C24: the avoid-list of every shuffle request made through guild_message
\* is empty or the pairs of a round of that channel, for such an avoid-list
\* that passes the size check an order with no avoided pair exists, and with
\* a fair random source the request's shuffle returns.
C24_RequestShuffleReturns ==
    /\ [](\A t \in Tasks :
            task[t].pc = "shuffle" => AvoidIsARound(t) /\ SomeOrderIsFree(t))
    /\ \A t \in Tasks : []<>(task[t].pc # "shuffle")

\* A request shuffles with the pairs of the channel's round to avoid, and
\* an order it can draw holds one of them.
C24_Witness ==
    \E t \in Tasks :
        /\ task[t].pc = "shuffle"
        /\ task[t].game # None
        /\ Distinct(task[t].mentioned)
        /\ \E order \in Shuffles(task[t].mentioned) :
            HitsAvoided(order, AvoidOf(task[t].game))

\* A request that named at least three distinct participants, fewer than
\* the pairs of the round found for its channel.
FewerThanTheRound ==
    /\ HCommand
    /\ h.found # None
    /\ Distinct(h.mentioned)
    /\ Len(h.mentioned) >= 3
    /\ Len(h.mentioned) < Len(h.found[1].pairs)

\* C25: a shuffle request with at least three distinct participants, fewer
\* than the pairs of its channel's registered round, is answered with the
\* TooManyExclusions report alone and leaves that round registered.
C25_FewerThanRoundFails ==
    (HReturned /\ FewerThanTheRound)
        => /\ outbox = <<Say(ToChannel(h.channel), "ShuffleError",
                             "TooManyExclusions", TRUE)>>
           /\ games = h.before
           /\ MapGet(games, h.found[1].owner) = h.found
           /\ h.found \in ScanResults(games, h.channel)

\* Such a request has returned, and its channel's round had one pair more
\* than it named participants.
C25_Witness ==
    /\ HReturned
    /\ FewerThanTheRound
    /\ h.path = "shuffle_failed"
    /\ Len(h.found[1].pairs) = Len(h.mentioned) + 1

====
